---- MODULE Spec2Model ----
(***************************************************************************)
(* Model of the RAG system: the FastAPI layer of src/backend/api.py (the   *)
(* process-wide rag_system / rag_chain globals and its handlers), the      *)
(* RAGSystem pipeline of src/index.py (FAISS, *.txt) and the               *)
(* RAGSystemChroma pipeline of src/rag-chromadb.py (Chroma, *.pdf).        *)
(*                                                                         *)
(* Every handler of api.py is an `async def` coroutine on one event loop:  *)
(* it runs without interleaving until it returns or reaches an `await`.    *)
(* The only await of the file is `await file.read()` in upload_files.      *)
(* The build stages are separate steps of the model so that the states in  *)
(* the middle of a build are visible; `running` is the coroutine that      *)
(* occupies the event loop.                                                *)
(***************************************************************************)
EXTENDS Integers, Sequences, FiniteSets, TLC

VARIABLES
    dir,          \* the docs directory: the set of files in it
    dir_exists,   \* whether the docs directory exists
    rag_system,   \* api.py global: None or the current RAGSystem object
    rag_chain,    \* api.py global: None or the current chain
    req,          \* per connection slot: the request and its coroutine state
    running,      \* the slot whose coroutine occupies the event loop, 0 if idle
    lastResp,     \* the response most recently sent
    chromadb_store, \* ./chromadb_store: the persisted Chroma collection
    script,       \* state of a run of the __main__ block of the two scripts
    chunker       \* state of a direct use of the RAGSystem methods with a
                  \* chunk configuration chosen by the caller

apiVars == <<dir, dir_exists, rag_system, rag_chain, req, running, lastResp>>
scriptVars == <<chromadb_store, script, chunker>>
vars == <<dir, dir_exists, rag_system, rag_chain, req, running, lastResp,
          chromadb_store, script, chunker>>

----------------------------------------------------------------------------
(* Bounds *)

\* connection slots: requests that can be pending or in progress together
MaxReq == 2
\* files in one upload request
MaxUpload == 2
\* runs of a script's __main__ block in one behaviour
MaxRuns == 3
\* uploaded copies of one file name kept in the directory
MaxCopies == 1
\* largest chunk_size and chunk_overlap a caller passes to split_documents
MaxChunk == 8

Slots == 1..MaxReq

----------------------------------------------------------------------------
(* Optional values: Python's None is the empty sequence, an object x is <<x>> *)

None == <<>>
Some(x) == <<x>>
Val(o) == o[1]
\* Python truthiness of an object reference
Truthy(o) == o # None

----------------------------------------------------------------------------
(* Files *)

\* a file of the directory or of an upload request
\*   name, ext : the file name split by os.path.splitext
\*   uid       : 0 for a file found at startup, else the uuid suffix added
\*               by sanitize_filename
\*   readable  : whether the loader class can read it
\*   big       : len(content) > MAX_FILE_SIZE
File(n, e, u, r, b) == [name |-> n, ext |-> e, uid |-> u, readable |-> r, big |-> b]

\* files that may be in the directory when the server starts
InitFiles ==
    { File("a", ".txt", 0, TRUE, FALSE),
      File("c", ".pdf", 0, TRUE, FALSE) }

\* files a client may send in an upload request
UploadFiles ==
    { File("n", ".txt", 0, TRUE, FALSE),
      File("bad", ".txt", 0, FALSE, FALSE),
      File("x", ".exe", 0, TRUE, FALSE),
      File("", "", 0, TRUE, FALSE),
      File("big", ".txt", 0, TRUE, TRUE) }

ALLOWED_EXTENSIONS == {".pdf", ".docx", ".txt"}

is_allowed_file(f) == f.ext \in ALLOWED_EXTENSIONS

\* the text of a readable file, as the pieces the splitter cuts it into
TextOf(f) ==
    CASE f.name = "a" -> <<"a0", "a1">>
      [] f.name = "n" -> <<"n0">>
      [] f.name = "c" -> <<"c0">>
      [] f.name = "d" -> <<"d0", "d1">>
      [] OTHER -> <<"z0">>

\* position of a file in the directory walk
FileRank(f) ==
    (CASE f.name = "a" -> 1 [] f.name = "bad" -> 2 [] f.name = "big" -> 3
       [] f.name = "c" -> 4 [] f.name = "d" -> 5 [] f.name = "n" -> 6
       [] OTHER -> 7) * 10 + f.uid

\* the files of a set in the order the directory walk yields them
RECURSIVE SortFiles(_)
SortFiles(S) ==
    IF S = {} THEN <<>>
    ELSE LET f == CHOOSE x \in S : \A y \in S : FileRank(x) <= FileRank(y)
         IN <<f>> \o SortFiles(S \ {f})

----------------------------------------------------------------------------
(* src/index.py: RAGSystem *)

\* RAGSystem.__init__: a fresh object, no vector store, no llm
RAGSystem_init == [vector_store |-> None, llm |-> None]

\* DirectoryLoader(docs_dir, glob="**/*.txt", loader_cls=TextLoader).load():
\* reads the matching files in turn and raises at the first file the loader
\* class cannot read (silent_errors is left at its default, False)
TxtMatches(d) == {f \in d : f.ext = ".txt"}
LoaderRaises(matching) == \E f \in matching : ~f.readable
LoaderLoad(matching) ==
    LET fs == SortFiles(matching)
    IN [i \in 1..Len(fs) |-> [source |-> fs[i], text |-> TextOf(fs[i])]]

\* RAGSystem.load_documents: the loaded documents, or [] when the loader raised
load_documents(d) ==
    IF LoaderRaises(TxtMatches(d)) THEN <<>> ELSE LoaderLoad(TxtMatches(d))

\* RAGSystem.split_documents: the chunks of each document, in document order
RECURSIVE split_documents(_)
split_documents(documents) ==
    IF documents = <<>> THEN <<>>
    ELSE LET doc == Head(documents)
         IN [i \in 1..Len(doc.text) |->
                [source |-> doc.source, chunk_index |-> i - 1, text |-> doc.text[i]]]
            \o split_documents(Tail(documents))

\* RecursiveCharacterTextSplitter(chunk_size, chunk_overlap), as
\* split_documents constructs it: a text is a sequence of characters.
\* The constructor raises ValueError when chunk_overlap > chunk_size.
splitter_raises(chunk_size, chunk_overlap) == chunk_overlap > chunk_size

\* the default separators "\n\n", "\n", " ", ""
SEPARATORS == << <<"\n", "\n">>, <<"\n">>, <<" ">>, <<>> >>
Whitespace == {" ", "\n"}

StartsWith(text, sep) ==
    Len(sep) <= Len(text) /\ SubSeq(text, 1, Len(sep)) = sep
Contains(text, sep) ==
    \E i \in 1..Len(text) : StartsWith(SubSeq(text, i, Len(text)), sep)

RECURSIVE Concat(_)
Concat(pieces) ==
    IF pieces = <<>> THEN <<>> ELSE Head(pieces) \o Concat(Tail(pieces))

\* str.strip()
RECURSIVE Strip(_)
Strip(text) ==
    IF text = <<>> THEN <<>>
    ELSE IF Head(text) \in Whitespace THEN Strip(Tail(text))
    ELSE IF text[Len(text)] \in Whitespace THEN Strip(SubSeq(text, 1, Len(text) - 1))
    ELSE text

\* the split at a separator, each separator kept at the start of the piece
\* that follows it, empty pieces dropped; cur is the piece being collected
RECURSIVE SplitKeep(_, _, _)
SplitKeep(text, sep, cur) ==
    IF text = <<>> THEN (IF cur = <<>> THEN <<>> ELSE <<cur>>)
    ELSE IF StartsWith(text, sep)
    THEN (IF cur = <<>> THEN <<>> ELSE <<cur>>)
         \o SplitKeep(SubSeq(text, Len(sep) + 1, Len(text)), sep, sep)
    ELSE SplitKeep(Tail(text), sep, Append(cur, Head(text)))

\* the separator "" splits into single characters
split_text_with_regex(text, sep) ==
    IF sep = <<>> THEN [i \in 1..Len(text) |-> <<text[i]>>]
    ELSE SplitKeep(text, sep, <<>>)

\* _join_docs: the pieces joined and stripped, nothing when that is empty
JoinDocs(current) ==
    IF Strip(Concat(current)) = <<>> THEN <<>> ELSE <<Strip(Concat(current))>>

\* the loop of _merge_splits that drops pieces from the front of the
\* current chunk until what is left fits the overlap and the next piece
RECURSIVE Pop(_, _, _, _)
Pop(current, len, chunk_size, chunk_overlap) ==
    LET total == Len(Concat(current))
    IN IF total > chunk_overlap \/ (total + len > chunk_size /\ total > 0)
       THEN Pop(Tail(current), len, chunk_size, chunk_overlap)
       ELSE current

\* _merge_splits: small pieces are collected into chunks of at most
\* chunk_size characters; a new chunk starts with the tail of the last one
RECURSIVE MergeSplits(_, _, _, _)
MergeSplits(splits, current, chunk_size, chunk_overlap) ==
    IF splits = <<>> THEN JoinDocs(current)
    ELSE LET d == Head(splits)
         IN IF Len(Concat(current)) + Len(d) > chunk_size /\ current # <<>>
            THEN JoinDocs(current)
                 \o MergeSplits(Tail(splits),
                                Append(Pop(current, Len(d), chunk_size, chunk_overlap), d),
                                chunk_size, chunk_overlap)
            ELSE MergeSplits(Tail(splits), Append(current, d),
                             chunk_size, chunk_overlap)

\* _split_text: split at the first separator the text contains, merge the
\* pieces shorter than chunk_size and split the others with the separators
\* that remain
RECURSIVE split_text(_, _, _, _)
RECURSIVE SplitWalk(_, _, _, _, _)
SplitWalk(splits, good, new_separators, chunk_size, chunk_overlap) ==
    LET merged == IF good = <<>> THEN <<>>
                  ELSE MergeSplits(good, <<>>, chunk_size, chunk_overlap)
    IN IF splits = <<>> THEN merged
       ELSE LET s == Head(splits)
            IN IF Len(s) < chunk_size
               THEN SplitWalk(Tail(splits), Append(good, s), new_separators,
                              chunk_size, chunk_overlap)
               ELSE merged
                    \o (IF new_separators = <<>> THEN <<s>>
                        ELSE split_text(s, new_separators, chunk_size, chunk_overlap))
                    \o SplitWalk(Tail(splits), <<>>, new_separators,
                                 chunk_size, chunk_overlap)

split_text(text, separators, chunk_size, chunk_overlap) ==
    LET hit == {i \in 1..Len(separators) :
                   separators[i] = <<>> \/ Contains(text, separators[i])}
        i == IF hit = {} THEN Len(separators)
             ELSE CHOOSE x \in hit : \A y \in hit : x <= y
        new_separators == IF hit = {} \/ separators[i] = <<>> THEN <<>>
                          ELSE SubSeq(separators, i + 1, Len(separators))
    IN SplitWalk(split_text_with_regex(text, separators[i]), <<>>,
                 new_separators, chunk_size, chunk_overlap)

\* HuggingFaceEmbeddings: a deterministic vector per text
Embed(text) ==
    CASE text = "a0" -> 1 [] text = "a1" -> 4 [] text = "n0" -> 6
      [] text = "c0" -> 2 [] text = "d0" -> 3 [] text = "d1" -> 7
      [] text = "q1" -> 2 [] text = "q2" -> 5
      [] OTHER -> 9

EmbedChunks(chunks) ==
    [i \in 1..Len(chunks) |-> [chunk |-> chunks[i], vector |-> Embed(chunks[i].text)]]

\* FAISS.from_documents(chunks, embeddings): a new in-memory store holding
\* exactly the embedded chunks
FAISS_from_documents(chunks) == [entries |-> EmbedChunks(chunks)]

\* RAGSystem.create_vector_store
create_vector_store(self, chunks) ==
    [self EXCEPT !.vector_store = Some(FAISS_from_documents(chunks))]

\* RAGSystem.initialize_llm
initialize_llm(self) == [self EXCEPT !.llm = Some("gpt-3.5-turbo")]

\* RAGSystem.setup_rag_pipeline: raises ValueError unless both parts are set
setup_raises(self) == ~Truthy(self.vector_store) \/ ~Truthy(self.llm)
setup_rag_pipeline(self) ==
    [retriever |-> Val(self.vector_store), llm |-> Val(self.llm)]

\* retriever k of setup_rag_pipeline
K == 3

Dist(a, b) == IF a >= b THEN a - b ELSE b - a

\* (variant) the first k entries of a store in insertion order
NearestUnranked(entries, left, qv, k) ==
    LET n == IF k <= Len(entries) THEN k ELSE Len(entries)
    IN [i \in 1..n |-> entries[i].chunk]

\* the k nearest entries of a store, nearest first, ties in insertion order
RECURSIVE Nearest(_, _, _, _)
Nearest(entries, left, qv, k) ==
    IF k = 0 \/ left = {} THEN <<>>
    ELSE LET i == CHOOSE x \in left : \A y \in left :
                     \/ Dist(entries[x].vector, qv) < Dist(entries[y].vector, qv)
                     \/ /\ Dist(entries[x].vector, qv) = Dist(entries[y].vector, qv)
                        /\ x <= y
         IN <<entries[i].chunk>> \o Nearest(entries, left \ {i}, qv, k - 1)

Retrieve(store, question) ==
    Nearest(store.entries, DOMAIN store.entries, Embed(question), K)

----------------------------------------------------------------------------
(* src/backend/api.py: requests, responses and the event loop *)

BuildOps == {"startup", "reinit", "upload", "delete", "clear"}
BuildPcs == {"ctor", "load", "split", "store", "llm", "setup"}

\* no direct use of the methods is under way
ChunkerOff ==
    [pc |-> "off", text |-> <<>>, chunk_size |-> 0, chunk_overlap |-> 0,
     loaded |-> FALSE, chunks |-> <<>>, exc |-> "", embedded |-> FALSE]

\* no script is running
NoRun == [cls |-> "none", docs |-> {}, entries |-> <<>>]
ScriptOff ==
    [pc |-> "off", cls |-> "none", entries |-> <<>>, question |-> "",
     answer |-> <<>>, runs |-> 0, outcome |-> "none", last |-> NoRun, prev |-> NoRun]

\* a free connection slot
IdleReq ==
    [op |-> "none", pc |-> "idle", file |-> None, i |-> 0,
     uploaded |-> <<>>, failed |-> <<>>,
     self |-> None, documents |-> <<>>, chunks |-> <<>>, exc |-> "",
     result |-> "none", matchedAny |-> FALSE, loaderRaised |-> FALSE,
     before |-> None, arrBuilding |-> FALSE, arrChain |-> None]

\* a build is in progress: some coroutine is between the statement
\* `rag_system = RAGSystem(...)` and the return of build_rag_system
Building == \E s \in Slots : req[s].pc \in BuildPcs

\* a request as it arrives; for a query issued while a build is in progress,
\* arrBuilding and arrChain record that and the chain of that moment
NewReq(op) ==
    IF op = "query" /\ Building
    THEN [IdleReq EXCEPT !.op = op, !.pc = "start",
                         !.arrBuilding = Building, !.arrChain = rag_chain]
    ELSE [IdleReq EXCEPT !.op = op, !.pc = "start"]

\* a response; the fields an endpoint does not return keep these defaults
NoResp ==
    [op |-> "none", code |-> 0, status |-> "", detail |-> "",
     question |-> "", answer |-> <<>>, chain |-> None,
     retrieved |-> FALSE, generated |-> FALSE,
     documents_loaded |-> 0, vector_store_ready |-> FALSE,
     uploaded |-> <<>>, failed |-> <<>>, exc |-> "",
     result |-> "none", matchedAny |-> FALSE, loaderRaised |-> FALSE,
     before |-> None, arrBuilding |-> FALSE, arrChain |-> None]

\* the response to request r; result, matchedAny, loaderRaised and before
\* record how the rebuild of the request went
Resp(r, code, status, detail) ==
    [NoResp EXCEPT !.op = r.op, !.code = code, !.status = status,
                   !.detail = detail, !.exc = r.exc,
                   !.result = r.result, !.matchedAny = r.matchedAny,
                   !.loaderRaised = r.loaderRaised, !.before = r.before,
                   !.arrBuilding = r.arrBuilding, !.arrChain = r.arrChain]

\* the event loop runs one coroutine at a time: s may take its next step
\* when the loop is free or s is the coroutine that occupies it
Scheduled(s) == running = 0 \/ running = s

----------------------------------------------------------------------------
(* Initial state: the process has started and startup_event is about to run *)

Init ==
    /\ dir_exists \in BOOLEAN
    /\ dir \in SUBSET InitFiles
    /\ (~dir_exists => dir = {})
    /\ rag_system = None
    /\ rag_chain = None
    /\ req = [s \in Slots |->
                IF s = 1 THEN [IdleReq EXCEPT !.op = "startup", !.pc = "ctor"]
                ELSE IdleReq]
    /\ running = 1
    /\ lastResp = NoResp
    /\ chromadb_store = <<>>
    /\ script = ScriptOff
    /\ chunker = ChunkerOff

Started == \A s \in Slots : req[s].op # "startup"

\* the open connections keep their order and take the first slots
Compact(f) ==
    LET Open(r) == r.op # "none"
        open == SelectSeq([i \in 1..MaxReq |-> f[i]], Open)
    IN [s \in Slots |-> IF s <= Len(open) THEN open[s] ELSE IdleReq]

\* the handler of slot s returns (or raises its HTTPException): the response
\* is sent, the connection closes and the event loop is free
Return(s, resp) ==
    /\ lastResp' = resp
    /\ req' = Compact([req EXCEPT ![s] = IdleReq])
    /\ running' = 0

\* (variant) the handler awaits its next statement, as it would if the
\* blocking calls were dispatched to a thread pool: the event loop is free
ContinueAwait(s, r) ==
    /\ lastResp' = NoResp
    /\ req' = [req EXCEPT ![s] = r]
    /\ running' = 0

\* the handler of slot s goes on as r and keeps the event loop
Continue(s, r) ==
    /\ lastResp' = NoResp
    /\ req' = [req EXCEPT ![s] = r]
    /\ running' = s

----------------------------------------------------------------------------
(* The rebuild shared by startup_event, reinitialize_system, upload_files, *)
(* delete_file and clear_all_files:                                        *)
(*     rag_system = RAGSystem(...)                                         *)
(*     rag_chain = rag_system.build_rag_system()                           *)
(* inside the handler's try block, followed by the handler's return or its *)
(* except clause.                                                          *)

\* the return statement (or the HTTPException of the except clause) of the
\* handlers that rebuild, with `chain` the value of the global rag_chain;
\* startup_event sends nothing
BuildResponse(r, chain) ==
    CASE r.op = "startup" -> Resp(r, 0, "", "")
      [] r.op = "reinit" ->
            IF r.exc # "" THEN Resp(r, 500, "", "Error reinitializing system")
            ELSE IF Truthy(chain)
                 THEN Resp(r, 200, "success", "RAG system reinitialized successfully")
                 ELSE Resp(r, 200, "warning",
                           "RAG system reinitialized but no documents found")
      [] r.op = "upload" ->
            [Resp(r, 200, IF r.uploaded # <<>> THEN "success" ELSE "error",
                  IF r.uploaded # <<>> THEN "Uploaded files successfully"
                  ELSE "No files uploaded")
             EXCEPT !.uploaded = r.uploaded, !.failed = r.failed]
      [] r.op = "delete" ->
            IF r.exc # "" THEN Resp(r, 500, "", "Error deleting file")
            ELSE Resp(r, 200, "success", "File deleted successfully")
      [] OTHER ->
            IF r.exc # "" THEN Resp(r, 500, "", "Error clearing files")
            ELSE Resp(r, 200, "success", "Cleared files")

\* an exception leaves the try block: the handler's except clause runs and
\* the globals keep what they hold
Raise(s, e) ==
    Return(s, BuildResponse([req[s] EXCEPT !.exc = e, !.result = "failed"],
                            rag_chain))

\* a method of the object `self` of coroutine s has set a field of it; the
\* global rag_system sees the change when it refers to the same object
Alias(old, new) ==
    IF rag_system = Some(old) THEN Some(new) ELSE rag_system

\* rag_system = RAGSystem(...): os.makedirs(docs_dir, exist_ok=True), which
\* may fail when it has to create the directory, then the assignment
Ctor(s) ==
    /\ req[s].op \in BuildOps /\ req[s].pc = "ctor" /\ Scheduled(s)
    /\ \/ /\ ~dir_exists
          /\ Raise(s, "OSError")
          /\ UNCHANGED <<rag_system, dir_exists>>
       \/ /\ rag_system' = Some(RAGSystem_init)
          /\ dir_exists' = TRUE
          /\ Continue(s, [req[s] EXCEPT !.self = Some(RAGSystem_init),
                                        !.before = rag_chain, !.pc = "load"])
    /\ UNCHANGED <<dir, rag_chain, scriptVars>>

\* documents = self.load_documents(); if not documents: return None
Load(s) ==
    /\ req[s].op \in BuildOps /\ req[s].pc = "load" /\ Scheduled(s)
    /\ LET documents == load_documents(dir)
           r == [req[s] EXCEPT !.matchedAny = TxtMatches(dir) # {},
                               !.loaderRaised = LoaderRaises(TxtMatches(dir))]
       IN IF documents = <<>>
          THEN /\ rag_chain' = None
               /\ Return(s, BuildResponse([r EXCEPT !.result = "none_returned"],
                                          None))
          ELSE /\ Continue(s, [r EXCEPT !.documents = documents, !.pc = "split"])
               /\ UNCHANGED rag_chain
    /\ UNCHANGED <<dir, dir_exists, rag_system, scriptVars>>

\* (variant) build_rag_system going from the split to initialize_llm
SplitSkipsStore(s) ==
    /\ req[s].op \in BuildOps /\ req[s].pc = "split" /\ Scheduled(s)
    /\ Continue(s, [req[s] EXCEPT !.chunks = split_documents(req[s].documents),
                                  !.documents = <<>>, !.pc = "llm"])
    /\ UNCHANGED <<dir, dir_exists, rag_system, rag_chain, scriptVars>>

\* chunks = self.split_documents(documents)
Split(s) ==
    /\ req[s].op \in BuildOps /\ req[s].pc = "split" /\ Scheduled(s)
    /\ Continue(s, [req[s] EXCEPT !.chunks = split_documents(req[s].documents),
                                  !.documents = <<>>, !.pc = "store"])
    /\ UNCHANGED <<dir, dir_exists, rag_system, rag_chain, scriptVars>>

\* self.create_vector_store(chunks): the embedding backend may fail
Store(s) ==
    /\ req[s].op \in BuildOps /\ req[s].pc = "store" /\ Scheduled(s)
    /\ \/ /\ Raise(s, "EmbeddingError")
          /\ UNCHANGED rag_system
       \/ LET old == Val(req[s].self)
              new == create_vector_store(old, req[s].chunks)
          IN /\ rag_system' = Alias(old, new)
             /\ Continue(s, [req[s] EXCEPT !.self = Some(new), !.chunks = <<>>,
                                           !.pc = "llm"])
    /\ UNCHANGED <<dir, dir_exists, rag_chain, scriptVars>>

\* self.initialize_llm(model_name): ChatOpenAI(...) may raise
Llm(s) ==
    /\ req[s].op \in BuildOps /\ req[s].pc = "llm" /\ Scheduled(s)
    /\ \/ /\ Raise(s, "LLMError")
          /\ UNCHANGED rag_system
       \/ LET old == Val(req[s].self)
              new == initialize_llm(old)
          IN /\ rag_system' = Alias(old, new)
             /\ Continue(s, [req[s] EXCEPT !.self = Some(new), !.pc = "setup"])
    /\ UNCHANGED <<dir, dir_exists, rag_chain, scriptVars>>

\* rag_chain = self.setup_rag_pipeline(), returned by build_rag_system and
\* assigned to the global
Setup(s) ==
    /\ req[s].op \in BuildOps /\ req[s].pc = "setup" /\ Scheduled(s)
    /\ IF setup_raises(Val(req[s].self))
       THEN /\ Raise(s, "ValueError")
            /\ UNCHANGED rag_chain
       ELSE LET chain == Some(setup_rag_pipeline(Val(req[s].self)))
            IN /\ rag_chain' = chain
               /\ Return(s, BuildResponse([req[s] EXCEPT !.result = "chain"], chain))
    /\ UNCHANGED <<dir, dir_exists, rag_system, scriptVars>>

----------------------------------------------------------------------------
(* The handlers *)

\* RAGSystem.process_query(query, rag_chain): the chain it invokes, None when
\* setup_rag_pipeline raises ValueError
ChainInvoked(self, chain) ==
    IF Truthy(chain) THEN chain
    ELSE IF setup_raises(self) THEN None
    ELSE Some(setup_rag_pipeline(self))

\* (variant) process_query without the guard of lines 133-137
QueryResponseNoGuard(r, question, generationFails) ==
    LET chain == IF Truthy(rag_system)
                 THEN ChainInvoked(Val(rag_system), rag_chain) ELSE None
    IN IF ~Truthy(chain)
       THEN [Resp(r, 500, "", "Error processing query")
             EXCEPT !.question = question]
       ELSE IF generationFails
       THEN [Resp(r, 500, "", "Error processing query")
             EXCEPT !.question = question, !.chain = chain,
                    !.retrieved = TRUE, !.generated = TRUE]
       ELSE [Resp(r, 200, "success", "")
             EXCEPT !.question = question, !.chain = chain,
                    !.retrieved = TRUE, !.generated = TRUE,
                    !.answer = Retrieve(Val(chain).retriever, question)]

\* (variant) process_query answering with the retrieved context when the
\* call to the language model fails
QueryResponseFallback(r, question, generationFails) ==
    IF ~Truthy(rag_system) \/ ~Truthy(rag_chain)
    THEN [Resp(r, 503, "", "RAG system not initialized or no documents available")
          EXCEPT !.question = question]
    ELSE [Resp(r, 200, "success", "")
          EXCEPT !.question = question, !.chain = rag_chain,
                 !.exc = IF generationFails THEN "GenerationError" ELSE "",
                 !.retrieved = TRUE, !.generated = TRUE,
                 !.answer = Retrieve(Val(rag_chain).retriever, question)]

\* POST /query: process_query; generationFails is the outcome of the call to
\* the language model
QueryResponse(r, question, generationFails) ==
    IF ~Truthy(rag_system) \/ ~Truthy(rag_chain)
    THEN [Resp(r, 503, "", "RAG system not initialized or no documents available")
          EXCEPT !.question = question]
    ELSE LET chain == ChainInvoked(Val(rag_system), rag_chain)
         IN IF ~Truthy(chain)
            THEN [Resp(r, 500, "", "Error processing query")
                  EXCEPT !.question = question, !.exc = "ValueError"]
            ELSE IF generationFails
            THEN [Resp(r, 500, "", "Error processing query")
                  EXCEPT !.question = question, !.chain = chain,
                         !.exc = "GenerationError",
                         !.retrieved = TRUE, !.generated = TRUE]
            ELSE [Resp(r, 200, "success", "")
                  EXCEPT !.question = question, !.chain = chain,
                         !.retrieved = TRUE, !.generated = TRUE,
                         !.answer = Retrieve(Val(chain).retriever, question)]

Questions == {"q1", "q2"}

\* (variant) a failed query drops the chain
QueryDropsChain(s) ==
    /\ req[s].op = "query" /\ req[s].pc = "start" /\ Scheduled(s)
    /\ \E question \in Questions, generationFails \in BOOLEAN :
          /\ Return(s, QueryResponse(req[s], question, generationFails))
          /\ rag_chain' = IF generationFails THEN None ELSE rag_chain
    /\ UNCHANGED <<dir, dir_exists, rag_system, scriptVars>>

Query(s) ==
    /\ req[s].op = "query" /\ req[s].pc = "start" /\ Scheduled(s)
    /\ \E question \in Questions, generationFails \in BOOLEAN :
          Return(s, QueryResponse(req[s], question, generationFails))
    /\ UNCHANGED <<dir, dir_exists, rag_system, rag_chain, scriptVars>>

\* GET /status: get_status
get_status(r) ==
    IF ~Truthy(rag_system)
    THEN [Resp(r, 200, "initializing", "RAG system is still initializing")
          EXCEPT !.documents_loaded = 0, !.vector_store_ready = FALSE]
    ELSE LET pdf_files == IF dir_exists THEN {f \in dir : f.ext = ".pdf"} ELSE {}
         IN [Resp(r, 200,
                  IF Truthy(rag_chain) THEN "ready" ELSE "no_documents",
                  IF Truthy(rag_chain) THEN "RAG system is ready"
                  ELSE "No documents found in docs directory")
             EXCEPT !.documents_loaded = Cardinality(pdf_files),
                    !.vector_store_ready = Truthy(Val(rag_system).vector_store)]

Status(s) ==
    /\ req[s].op = "status" /\ req[s].pc = "start" /\ Scheduled(s)
    /\ Return(s, get_status(req[s]))
    /\ UNCHANGED <<dir, dir_exists, rag_system, rag_chain, scriptVars>>

\* POST /reinitialize: reinitialize_system enters its try block
ReinitStart(s) ==
    /\ req[s].op = "reinit" /\ req[s].pc = "start" /\ Scheduled(s)
    /\ Continue(s, [req[s] EXCEPT !.pc = "ctor"])
    /\ UNCHANGED <<dir, dir_exists, rag_system, rag_chain, scriptVars>>

\* sanitize_filename: the saved name carries a fresh uuid suffix
FreeUid(f) ==
    CHOOSE u \in 1..(Cardinality(dir) + 1) :
        /\ \A g \in dir : ~(g.name = f.name /\ g.ext = f.ext /\ g.uid = u)
        /\ \A v \in 1..(u - 1) :
              \E g \in dir : g.name = f.name /\ g.ext = f.ext /\ g.uid = v
sanitize_filename(f) == [f EXCEPT !.uid = FreeUid(f)]

\* uploaded copies of f's name in the directory, or about to be written by
\* a coroutine waiting in file.read()
Copies(f) ==
    Cardinality({g \in dir : g.name = f.name /\ g.ext = f.ext /\ g.uid > 0})
    + Cardinality({s \in Slots : req[s].pc = "read" /\ req[s].file = Some(f)})

Saveable(f) == f.name # "" /\ is_allowed_file(f) /\ ~f.big

\* POST /upload: upload_files up to the loop over the files of the request
UploadStart(s) ==
    /\ req[s].op = "upload" /\ req[s].pc = "start" /\ Scheduled(s)
    /\ dir_exists' = TRUE
    /\ Continue(s, [req[s] EXCEPT !.pc = "file", !.i = 1])
    /\ UNCHANGED <<dir, rag_system, rag_chain, scriptVars>>

\* the loop is over: the rebuild if any file was saved, else the response
UploadDone(s) ==
    /\ req[s].op = "upload" /\ req[s].pc = "file" /\ Scheduled(s)
    /\ req[s].i > 1
    /\ IF req[s].uploaded # <<>>
       THEN Continue(s, [req[s] EXCEPT !.pc = "ctor"])
       ELSE Return(s, BuildResponse(req[s], rag_chain))
    /\ UNCHANGED <<dir, dir_exists, rag_system, rag_chain, scriptVars>>

\* one turn of the loop, on the next file f of the request, up to
\* `content = await file.read()`, where the coroutine gives up the event loop
UploadFile(s) ==
    /\ req[s].op = "upload" /\ req[s].pc = "file" /\ Scheduled(s)
    /\ req[s].i <= MaxUpload
    /\ \E f \in UploadFiles :
          /\ Saveable(f) => Copies(f) < MaxCopies
          /\ IF f.name = "" \/ ~is_allowed_file(f)
             THEN Continue(s, [req[s] EXCEPT !.failed = Append(@, f), !.i = @ + 1])
             ELSE /\ req' = [req EXCEPT ![s].file = Some(f), ![s].pc = "read"]
                  /\ running' = 0
                  /\ lastResp' = NoResp
    /\ UNCHANGED <<dir, dir_exists, rag_system, rag_chain, scriptVars>>

\* (variant) the file is written before its size is checked
UploadReadWritesFirst(s) ==
    /\ req[s].op = "upload" /\ req[s].pc = "read" /\ Scheduled(s)
    /\ LET f == Val(req[s].file)
       IN /\ dir' = dir \cup {sanitize_filename(f)}
          /\ IF f.big
             THEN Continue(s, [req[s] EXCEPT !.failed = Append(@, f), !.i = @ + 1,
                                            !.file = None, !.pc = "file"])
             ELSE Continue(s, [req[s] EXCEPT
                                  !.uploaded = Append(@, sanitize_filename(f)),
                                  !.i = @ + 1, !.file = None, !.pc = "file"])
    /\ UNCHANGED <<dir_exists, rag_system, rag_chain, scriptVars>>

\* the rest of the turn: the size check, then the file is written
UploadRead(s) ==
    /\ req[s].op = "upload" /\ req[s].pc = "read" /\ Scheduled(s)
    /\ LET f == Val(req[s].file)
       IN IF f.big
          THEN /\ Continue(s, [req[s] EXCEPT !.failed = Append(@, f), !.i = @ + 1,
                                             !.file = None, !.pc = "file"])
               /\ UNCHANGED dir
          ELSE /\ dir' = dir \cup {sanitize_filename(f)}
               /\ Continue(s, [req[s] EXCEPT
                                  !.uploaded = Append(@, sanitize_filename(f)),
                                  !.i = @ + 1, !.file = None, !.pc = "file"])
    /\ UNCHANGED <<dir_exists, rag_system, rag_chain, scriptVars>>

\* DELETE /files/{filename}: delete_file up to the rebuild
DeleteStart(s) ==
    /\ req[s].op = "delete" /\ req[s].pc = "start" /\ Scheduled(s)
    /\ \E f \in dir \cup {File("n", ".txt", 1, TRUE, FALSE)} :
          IF ~(dir_exists /\ f \in dir)
          THEN /\ Return(s, Resp(req[s], 404, "", "File not found"))
               /\ UNCHANGED dir
          ELSE /\ dir' = dir \ {f}
               /\ Continue(s, [req[s] EXCEPT !.pc = "ctor"])
    /\ UNCHANGED <<dir_exists, rag_system, rag_chain, scriptVars>>

\* POST /clear-files: clear_all_files up to the rebuild
ClearStart(s) ==
    /\ req[s].op = "clear" /\ req[s].pc = "start" /\ Scheduled(s)
    /\ IF ~dir_exists
       THEN /\ Return(s, Resp(req[s], 200, "success", "No files to clear"))
            /\ UNCHANGED dir
       ELSE /\ dir' = {f \in dir : ~is_allowed_file(f)}
            /\ Continue(s, [req[s] EXCEPT !.pc = "ctor"])
    /\ UNCHANGED <<dir_exists, rag_system, rag_chain, scriptVars>>

----------------------------------------------------------------------------
(* Clients *)

\* a client sends a request: it waits in the first free slot until the
\* event loop runs its handler. An idle loop runs the handler of a waiting
\* request before it accepts the next one.
Arrive(s) ==
    /\ Started
    /\ req[s].op = "none"
    /\ \A t \in Slots : t < s => req[t].op # "none"
    /\ running = 0 => \A t \in Slots : req[t].pc # "start"
    /\ \E op \in {"query", "status", "reinit", "upload", "delete", "clear"} :
          req' = [req EXCEPT ![s] = NewReq(op)]
    /\ lastResp' = NoResp
    /\ UNCHANGED <<dir, dir_exists, rag_system, rag_chain, running, scriptVars>>

----------------------------------------------------------------------------
(* The __main__ blocks of src/index.py and src/rag-chromadb.py: the script *)
(* builds once, then answers questions until the user quits. Each run is a *)
(* new process; ./docs and ./chromadb_store outlive it.                    *)

\* files that may be in ./docs when a script runs
ScriptFiles == InitFiles \cup { File("d", ".pdf", 0, TRUE, FALSE) }

\* RAGSystemChroma.load_documents: DirectoryLoader(glob="**/*.pdf",
\* loader_cls=PDFMinerLoader)
PdfMatches(d) == {f \in d : f.ext = ".pdf"}
chroma_load_documents(d) ==
    IF LoaderRaises(PdfMatches(d)) THEN <<>> ELSE LoaderLoad(PdfMatches(d))

\* Chroma.from_documents(chunks, embeddings, persist_directory=
\* "./chromadb_store"): opens the collection persisted in the directory and
\* adds the embedded chunks to it
Chroma_from_documents(collection, chunks) == collection \o EmbedChunks(chunks)

\* the entries of the vector store the running script searches; a Chroma
\* store is the persisted collection itself
ScriptIndex ==
    IF script.cls = "chroma" THEN chromadb_store ELSE script.entries

\* `python index.py` or `python rag-chromadb.py`: rag = Cls();
\* rag_chain = rag.build_rag_system(); `fails` is the stage that raises
ScriptRun ==
    /\ script.pc = "off"
    /\ script.runs < MaxRuns
    /\ \E cls \in {"faiss", "chroma"}, fails \in {"none", "store", "llm"} :
          LET documents == IF cls = "faiss" THEN load_documents(dir)
                           ELSE chroma_load_documents(dir)
              chunks == split_documents(documents)
              started == [script EXCEPT !.cls = cls, !.runs = @ + 1,
                                        !.entries = <<>>, !.question = "",
                                        !.answer = <<>>]
              stored == cls = "chroma" /\ documents # <<>> /\ fails # "store"
              collection == IF stored
                            THEN Chroma_from_documents(chromadb_store, chunks)
                            ELSE chromadb_store
              entries == IF cls = "chroma" THEN collection
                         ELSE FAISS_from_documents(chunks).entries
          IN /\ chromadb_store' = collection
             /\ IF documents = <<>>
                THEN script' = [started EXCEPT !.outcome = "no_documents",
                                               !.cls = "none"]
                ELSE IF fails # "none"
                THEN script' = [started EXCEPT !.outcome = "crashed",
                                               !.cls = "none"]
                ELSE script' =
                       [started EXCEPT
                          !.pc = "loop", !.outcome = "built",
                          !.entries = IF cls = "faiss" THEN entries ELSE <<>>,
                          !.last = [cls |-> cls, docs |-> dir, entries |-> entries],
                          !.prev = script.last]
    /\ UNCHANGED <<dir, dir_exists, rag_system, rag_chain, req, running, lastResp,
                   chunker>>

\* one turn of the input loop: rag.process_query(query, rag_chain); an
\* exception of the language model ends the process
ScriptQuery ==
    /\ script.pc = "loop"
    /\ \E question \in Questions, generationFails \in BOOLEAN :
          IF generationFails
          THEN script' = [script EXCEPT !.pc = "off", !.cls = "none",
                                        !.entries = <<>>, !.question = "",
                                        !.answer = <<>>, !.outcome = "crashed"]
          ELSE script' = [script EXCEPT
                             !.question = question,
                             !.answer = Nearest(ScriptIndex, DOMAIN ScriptIndex,
                                                Embed(question), K),
                             !.outcome = "answered"]
    /\ UNCHANGED <<dir, dir_exists, rag_system, rag_chain, req, running, lastResp,
                   chromadb_store, chunker>>

\* the user types quit
ScriptQuit ==
    /\ script.pc = "loop"
    /\ script' = [script EXCEPT !.pc = "off", !.cls = "none", !.entries = <<>>,
                                !.question = "", !.answer = <<>>,
                                !.outcome = "quit"]
    /\ UNCHANGED <<dir, dir_exists, rag_system, rag_chain, req, running, lastResp,
                   chromadb_store, chunker>>

\* between runs the user adds a file to ./docs or removes one
EditDocs ==
    /\ script.pc = "off"
    /\ \E f \in ScriptFiles : dir' = IF f \in dir THEN dir \ {f} ELSE dir \cup {f}
    /\ UNCHANGED <<dir_exists, rag_system, rag_chain, req, running, lastResp,
                   chromadb_store, script, chunker>>

InitScript ==
    /\ dir_exists = TRUE
    /\ dir \in SUBSET ScriptFiles
    /\ rag_system = None
    /\ rag_chain = None
    /\ req = [s \in Slots |-> IdleReq]
    /\ running = 0
    /\ lastResp = NoResp
    /\ chromadb_store = <<>>
    /\ script = ScriptOff
    /\ chunker = ChunkerOff

NextScript ==
    \/ ScriptRun
    \/ ScriptQuery
    \/ ScriptQuit
    \/ EditDocs

SpecScript == InitScript /\ [][NextScript]_vars

(* A caller that uses the methods of RAGSystem one by one, as                *)
(* build_rag_system does, and passes its own chunk configuration:           *)
(*     documents = rag.load_documents()                                     *)
(*     chunks = rag.split_documents(documents, chunk_size, chunk_overlap)   *)
(*     rag.create_vector_store(chunks)                                      *)

\* the texts of the document in ./docs
ChunkTexts ==
    { <<"S","u","n",".","\n","M","o","o","n",".","\n","S","t","a","r",".">>,
      <<"a","b"," ","c","d"," ","e","f">>,
      <<"a","a","a","a","a","a","a","a","a","a">>,
      <<"a","\n","\n","b"," ","c">> }

\* documents = rag.load_documents()
ChunkerLoad ==
    /\ chunker.pc = "load"
    /\ chunker' = [chunker EXCEPT !.pc = "split", !.loaded = TRUE]
    /\ UNCHANGED <<apiVars, chromadb_store, script>>

\* chunks = rag.split_documents(documents, chunk_size, chunk_overlap)
ChunkerSplit ==
    /\ chunker.pc = "split"
    /\ chunker' =
          IF splitter_raises(chunker.chunk_size, chunker.chunk_overlap)
          THEN [chunker EXCEPT !.pc = "raised", !.exc = "ValueError"]
          ELSE [chunker EXCEPT !.pc = "store",
                               !.chunks = split_text(chunker.text, SEPARATORS,
                                                     chunker.chunk_size,
                                                     chunker.chunk_overlap)]
    /\ UNCHANGED <<apiVars, chromadb_store, script>>

\* rag.create_vector_store(chunks)
ChunkerStore ==
    /\ chunker.pc = "store"
    /\ chunker' = [chunker EXCEPT !.pc = "done", !.embedded = TRUE]
    /\ UNCHANGED <<apiVars, chromadb_store, script>>

InitChunker ==
    /\ dir_exists = TRUE
    /\ dir = {}
    /\ rag_system = None
    /\ rag_chain = None
    /\ req = [s \in Slots |-> IdleReq]
    /\ running = 0
    /\ lastResp = NoResp
    /\ chromadb_store = <<>>
    /\ script = ScriptOff
    /\ \E text \in ChunkTexts, chunk_size \in 1..MaxChunk,
          chunk_overlap \in 0..MaxChunk :
          chunker = [ChunkerOff EXCEPT !.pc = "load", !.text = text,
                                       !.chunk_size = chunk_size,
                                       !.chunk_overlap = chunk_overlap]

NextChunker ==
    \/ ChunkerLoad
    \/ ChunkerSplit
    \/ ChunkerStore

SpecChunker == InitChunker /\ [][NextChunker]_vars

----------------------------------------------------------------------------

Next ==
    \/ \E s \in Slots : Arrive(s)
    \/ \E s \in Slots : Ctor(s)
    \/ \E s \in Slots : Load(s)
    \/ \E s \in Slots : Split(s)
    \/ \E s \in Slots : Store(s)
    \/ \E s \in Slots : Llm(s)
    \/ \E s \in Slots : Setup(s)
    \/ \E s \in Slots : Query(s)
    \/ \E s \in Slots : Status(s)
    \/ \E s \in Slots : ReinitStart(s)
    \/ \E s \in Slots : UploadStart(s)
    \/ \E s \in Slots : UploadFile(s)
    \/ \E s \in Slots : UploadDone(s)
    \/ \E s \in Slots : UploadRead(s)
    \/ \E s \in Slots : DeleteStart(s)
    \/ \E s \in Slots : ClearStart(s)

Spec == Init /\ [][Next]_vars

----------------------------------------------------------------------------
(* Properties *)

\* the state of the pipeline as the API reports it: /status says
\* "initializing", "ready" or "no_documents"
PipelineState ==
    CASE get_status(IdleReq).status = "initializing" -> "UNBUILT"
      [] get_status(IdleReq).status = "ready" -> "READY"
      [] OTHER -> "EMPTY"

\* the response just sent answers a rebuild that ran (it got as far as
\* constructing or trying to construct its RAGSystem)
RebuildEnded == lastResp.op \in BuildOps /\ lastResp.result # "none"

\* the rebuild just ended failed in a component: an exception left
\* build_rag_system, or the loader raised and load_documents swallowed it
ComponentFailed == lastResp.result = "failed" \/ lastResp.loaderRaised

\* C1: a query is served only when the pipeline is READY; in every other
\* state it fails with a not-ready error (503) that carries the name of the
\* current state, and neither the retriever nor the language model is invoked
C1_ServedOnlyWhenReady ==
    lastResp.op = "query" =>
        IF PipelineState = "READY"
        THEN lastResp.code # 503
        ELSE /\ lastResp.code = 503
             /\ lastResp.detail = PipelineState
             /\ ~lastResp.retrieved /\ ~lastResp.generated

\* C2: when a rebuild fails with a component error while a working index
\* exists, the previous index is preserved: the chain that serves queries
\* after the rebuild is the chain of before it
C2_FailedRebuildKeepsIndex ==
    (RebuildEnded /\ ComponentFailed /\ Truthy(lastResp.before))
        => rag_chain = lastResp.before

\* C3: a query issued while a rebuild is in progress is answered from the
\* index of before the rebuild, never with an error caused by the rebuild
C3_StaleServing ==
    (lastResp.op = "query" /\ lastResp.arrBuilding /\ Truthy(lastResp.arrChain))
        => /\ lastResp.code # 503
           /\ lastResp.chain = lastResp.arrChain

\* C4: whenever a query or status call can observe the globals (the event
\* loop is free), the system object, its vector store and the chain come
\* from the same completed build
C4_OnePublishedBuild ==
    (running = 0 /\ Truthy(rag_chain)) =>
        /\ Truthy(rag_system)
        /\ Val(rag_system).vector_store = Some(Val(rag_chain).retriever)
        /\ Val(rag_system).llm = Some(Val(rag_chain).llm)

\* C5: at most one build is in flight at any time, and the build in flight
\* is the coroutine that occupies the event loop: a second build that is
\* requested meanwhile waits until the first has returned
C5_OneBuildInFlight ==
    /\ Cardinality({s \in Slots : req[s].pc \in BuildPcs}) <= 1
    /\ \A s \in Slots : req[s].pc \in BuildPcs => running = s
C5_Witness ==
    \E s, t \in Slots :
        /\ req[s].pc \in {"store", "llm", "setup"}
        /\ req[t].op \in BuildOps /\ req[t].pc = "start"

\* C6: a build on a directory with zero matching documents ends without an
\* error in EMPTY, and a query in EMPTY fails with the not-ready error
C6_EmptyBuild ==
    /\ (RebuildEnded /\ lastResp.exc # "OSError" /\ TxtMatches(dir) = {})
          => /\ lastResp.result = "none_returned"
             /\ lastResp.code \in {0, 200}
             /\ PipelineState = "EMPTY"
    /\ (lastResp.op = "query" /\ PipelineState = "EMPTY")
          => /\ lastResp.code = 503
             /\ ~lastResp.retrieved /\ ~lastResp.generated
C6_Witness ==
    /\ lastResp.op = "query" /\ lastResp.code = 503
    /\ PipelineState = "EMPTY" /\ TxtMatches(dir) = {}

\* C7: an error during a build leaves the pipeline FAILED, never EMPTY: the
\* pipeline is EMPTY after a build only when the build found zero matching
\* documents
C7_EmptyOnlyWhenNoDocuments ==
    (RebuildEnded /\ PipelineState = "EMPTY")
        => /\ ~ComponentFailed
           /\ ~lastResp.matchedAny

\* C8: one unreadable file does not abort loading: a build on a directory
\* with a bad file and at least one good file, in which nothing else fails,
\* ends READY
C8_BadFileSkipped ==
    (/\ RebuildEnded /\ lastResp.result # "failed"
     /\ \E f \in TxtMatches(dir) : ~f.readable
     /\ \E f \in TxtMatches(dir) : f.readable)
        => /\ PipelineState = "READY"
           /\ lastResp.result = "chain"

\* C9: a script that builds twice in a row from an unchanged document set
\* gets the index contents of the first build again: the same chunk count
\* and the same (vector, text) pairs, with either vector store
C9_IdempotentRebuild ==
    (/\ script.outcome = "built"
     /\ script.prev.cls = script.last.cls
     /\ script.prev.docs = script.last.docs)
        => script.last.entries = script.prev.entries

\* C10: a query writes no shared state: the step that answers a query
\* leaves the directory, the globals and every other request as they were,
\* and the answer is the retrieval from the chain in place
C10_QueryReadOnly ==
    [][lastResp'.op = "query" =>
          /\ UNCHANGED <<dir, dir_exists, rag_system, rag_chain, scriptVars>>
          /\ \A s \in Slots :
                req[s].op # "none" =>
                   \/ req[s].op = "query" /\ req[s].pc = "start" /\ running' = 0
                      /\ req' = Compact([req EXCEPT ![s] = IdleReq])
                   \/ \E t \in Slots : req'[t] = req[s]
          /\ lastResp'.code = 200 =>
                lastResp'.answer =
                    Retrieve(Val(rag_chain).retriever, lastResp'.question)]_vars
C10_Witness ==
    /\ lastResp.op = "query" /\ lastResp.code = 200
    /\ \E s \in Slots : req[s].op = "upload" /\ req[s].pc = "read"

\* C11: a query whose call to the language model fails is answered with an
\* HTTP error (500) that carries no answer text, and the step leaves the
\* directory, the globals and the persisted collection as they were
C11_GenerationErrorSurfaced ==
    [][(lastResp'.op = "query" /\ lastResp'.exc = "GenerationError") =>
          /\ lastResp'.code = 500
          /\ lastResp'.status # "success"
          /\ lastResp'.answer = None
          /\ UNCHANGED <<dir, dir_exists, rag_system, rag_chain, chromadb_store>>]_vars
C11_Witness ==
    /\ lastResp.op = "query" /\ lastResp.exc = "GenerationError"
    /\ lastResp.generated /\ Truthy(rag_chain)

\* C12: no operation of the core (constructing the RAGSystem, the stages of
\* build_rag_system, answering a query) writes to the source directory: the
\* set of its entries and whether it exists are the same after the step
C12_CoreNeverWritesSourceDir ==
    [][(\E s \in Slots : \/ Ctor(s) \/ Load(s) \/ Split(s) \/ Store(s)
                         \/ Llm(s) \/ Setup(s) \/ Query(s))
          => UNCHANGED <<dir, dir_exists>>]_vars

\* C13: a chunk configuration with chunk_overlap not strictly less than
\* chunk_size is rejected before anything else happens: no document is
\* loaded, no chunk is produced and no embedding is computed, and the call
\* that meets the configuration ends with the error
C13_InvalidChunkConfigRejected ==
    (chunker.pc # "off" /\ chunker.chunk_overlap >= chunker.chunk_size) =>
        /\ ~chunker.loaded
        /\ chunker.chunks = <<>>
        /\ ~chunker.embedded
        /\ chunker.pc \in {"load", "raised"}

\* the last n characters of c1 are the first n characters of c2
SharesSpan(c1, c2, n) ==
    /\ n <= Len(c1) /\ n <= Len(c2)
    /\ SubSeq(c1, Len(c1) - n + 1, Len(c1)) = SubSeq(c2, 1, n)

\* C15: the chunks that split_documents(chunk_size, chunk_overlap) makes of a
\* document are at most chunk_size long, adjacent chunks share exactly
\* chunk_overlap characters, and "Sun.\nMoon.\nStar." at chunk_size 8 and
\* chunk_overlap 2 gives exactly 2 chunks that overlap in "oo"
C15_OverlapExact ==
    chunker.pc \in {"store", "done"} =>
        /\ \A i \in 1..Len(chunker.chunks) :
              Len(chunker.chunks[i]) <= chunker.chunk_size
        /\ \A i \in 1..(Len(chunker.chunks) - 1) :
              SharesSpan(chunker.chunks[i], chunker.chunks[i + 1],
                         chunker.chunk_overlap)
        /\ (/\ chunker.text[1] = "S"
            /\ chunker.chunk_size = 8 /\ chunker.chunk_overlap = 2)
              => /\ Len(chunker.chunks) = 2
                 /\ SharesSpan(chunker.chunks[1], chunker.chunks[2], 2)
                 /\ SubSeq(chunker.chunks[2], 1, 2) = <<"o", "o">>

StageAfter(pc) ==
    CASE pc = "load" -> "split"
      [] pc = "split" -> "store"
      [] pc = "store" -> "llm"
      [] pc = "llm" -> "setup"
      [] OTHER -> "return"

\* C16: build_rag_system runs load, split, create_vector_store,
\* initialize_llm, setup_rag_pipeline in this order, one after the other;
\* it returns a chain only from setup_rag_pipeline, on an object whose
\* vector store and llm are set, after a load that found a document
C16_StageOrder ==
    [][/\ \A s \in Slots :
             req[s].pc \in BuildPcs \ {"ctor"} =>
                \/ req'[s] = req[s]
                \/ /\ req'[s].op = req[s].op
                   /\ req'[s].pc = StageAfter(req[s].pc)
                   /\ lastResp' = NoResp
                \/ /\ lastResp'.op = req[s].op
                   /\ lastResp'.result \in {"failed", "none_returned", "chain"}
                   /\ lastResp'.result = "none_returned" => req[s].pc = "load"
                   /\ lastResp'.result = "chain" => req[s].pc = "setup"
       /\ lastResp'.result = "chain" =>
             \E s \in Slots :
                /\ req[s].pc = "setup" /\ req[s].matchedAny
                /\ Truthy(Val(req[s].self).vector_store)
                /\ Truthy(Val(req[s].self).llm)
                /\ Val(Val(req[s].self).vector_store).entries # <<>>
                /\ rag_chain' = Some(setup_rag_pipeline(Val(req[s].self)))]_vars
C16_Witness ==
    /\ lastResp.op = "reinit" /\ lastResp.result = "chain"
    /\ Truthy(rag_chain) /\ Val(rag_chain).retriever.entries # <<>>

\* C17: /status never reports status "ready" together with
\* vector_store_ready = false: whenever the API considers the system ready
\* the current rag_system has a vector store
C17_ReadyHasVectorStore ==
    (lastResp.op = "status" /\ lastResp.status = "ready")
        => /\ lastResp.vector_store_ready
           /\ Truthy(Val(rag_system).vector_store)

\* the files whose chunks are in the index that serves queries
IndexedFiles ==
    IF Truthy(rag_chain)
    THEN {Val(rag_chain).retriever.entries[i].chunk.source :
             i \in DOMAIN Val(rag_chain).retriever.entries}
    ELSE {}

\* C18: when upload_files returns status "success" its rebuild completed
\* without error, the system is READY and every file of uploaded_files is
\* part of the index that serves queries
C18_UploadSuccessMeansIndexed ==
    (lastResp.op = "upload" /\ lastResp.status = "success")
        => /\ lastResp.result = "chain"
           /\ PipelineState = "READY"
           /\ \A i \in DOMAIN lastResp.uploaded :
                 lastResp.uploaded[i] \in IndexedFiles

\* C19: a query accepted after delete_file or clear_all_files removed a file
\* is answered by an index built after the removal: no chunk of an answer
\* comes from a file that is no longer in the directory
C19_NoAnswerFromDeletedFile ==
    (lastResp.op = "query" /\ lastResp.code = 200)
        => \A i \in DOMAIN lastResp.answer :
              lastResp.answer[i].source \in dir

\* C20: whenever /status reports "ready", documents_loaded is at least 1
\* and is the number of files in the directory that the loader selects
C20_DocumentsLoadedIsIndexed ==
    (lastResp.op = "status" /\ lastResp.status = "ready")
        => /\ lastResp.documents_loaded >= 1
           /\ lastResp.documents_loaded = Cardinality(TxtMatches(dir))

====
